---- MODULE Spec2Model ----
(***************************************************************************)
(* Model of firecli/mark.py: the `gamaficer` command, which reads survey   *)
(* observation lines, resolves the referenced points in the FIRE database  *)
(* and writes punkter.geojson, observationer.geojson and a GNU Gama XML    *)
(* input file.                                                             *)
(*                                                                         *)
(* Python strings on which the code does character work (input lines,      *)
(* tokens, identifiers, file names, WKT geometry) are sequences of         *)
(* one-character strings.  Strings that are only compared or printed       *)
(* (message prefixes, exception names, XML section names) are TLA+         *)
(* strings.                                                                *)
(***************************************************************************)
EXTENDS Integers, Sequences, FiniteSets, TLC

VARIABLES
    pc,            \* position of the single thread of control
    optOutput,     \* value of the -o/--output option ('' when not given)
    filnavne,      \* names of the input streams (click.File arguments)
    output,        \* gamaficer's parameter `output`
    fi,            \* index of the stream the read loop is in
    lest,          \* the lines each stream has delivered so far
    observationer, \* gamaficer's list `observationer`
    punkter,       \* gamaficer's set `punkter`
    stdout,        \* what has been written to standard output
    stderr,        \* what has been written to standard error
    exc,           \* how the process ended: None, an uncaught exception, SystemExit
    dvr90,         \* result of hent_sridid
    rest,          \* identifiers of sorted(punkter) still to be resolved
    db,            \* what the database returned for each identifier asked for
    punktinfo,     \* eksporter's dict `punktinfo`, in insertion order
    fs,            \* file system: path -> content written
    aabne,         \* paths of the files currently open for writing
    log,           \* open/write/close calls on output files, in order
    ud             \* features yielded by obs_feature when applied on its own

vars == << pc, optOutput, filnavne, output, fi, lest, observationer, punkter,
           stdout, stderr, exc, dvr90, rest, db, punktinfo, fs, aabne, log, ud >>

None == "None"

\* how a call ends: it returns a value, raises an exception, or calls
\* sys.exit(1) after printing a message
Returns(v)   == [kind |-> "return", value |-> v]
Raises(e)    == [kind |-> "raise", exc |-> e]
Exits(msg)   == [kind |-> "exit", msg |-> msg]

(***************************************************************************)
(* Bounds of the model.                                                    *)
(***************************************************************************)
MaxFiles == 2      \* input streams on the command line
MaxLines == 2      \* lines delivered by all input streams together
MaxHist  == 2      \* entries in one point's coordinate history
MaxObs   == 2      \* observations handed to obs_feature on its own

(***************************************************************************)
(* Python string primitives.                                               *)
(***************************************************************************)
Whitespace == {" ", "\t", "\n", "\r"}

\* the characters that occur in identifiers, in code point order
Chr == << "#", "-", ".", "/", "0", "1", "2", "4", "5", "7", "9",
          "G", "P", "a", "b", "c", "j", "x" >>

Ord(c) == CHOOSE i \in 1..Len(Chr) : Chr[i] = c

\* str.__lt__: lexicographic comparison by code point
RECURSIVE StrLess(_, _)
StrLess(s, t) ==
    IF t = << >> THEN FALSE
    ELSE IF s = << >> THEN TRUE
    ELSE IF Head(s) = Head(t) THEN StrLess(Tail(s), Tail(t))
    ELSE Ord(Head(s)) < Ord(Head(t))

\* sorted(S) for a set of strings
RECURSIVE sorted(_)
sorted(S) ==
    IF S = {} THEN << >>
    ELSE LET m == CHOOSE x \in S : \A y \in S \ {x} : StrLess(x, y)
         IN  << m >> \o sorted(S \ {m})

\* s.lstrip(chars)
RECURSIVE lstrip(_, _)
lstrip(s, chars) ==
    IF s # << >> /\ Head(s) \in chars THEN lstrip(Tail(s), chars) ELSE s

\* s.rstrip(chars)
RECURSIVE rstrip(_, _)
rstrip(s, chars) ==
    IF s # << >> /\ s[Len(s)] \in chars
    THEN rstrip(SubSeq(s, 1, Len(s) - 1), chars) ELSE s

\* s.strip()
strip(s) == rstrip(lstrip(s, Whitespace), Whitespace)

\* s.split(): the maximal runs of non-whitespace characters
RECURSIVE SplitFrom(_, _, _)
SplitFrom(s, cur, acc) ==
    IF s = << >>
    THEN IF cur = << >> THEN acc ELSE Append(acc, cur)
    ELSE IF Head(s) \in Whitespace
         THEN SplitFrom(Tail(s), << >>,
                        IF cur = << >> THEN acc ELSE Append(acc, cur))
         ELSE SplitFrom(Tail(s), Append(cur, Head(s)), acc)

split(s) == SplitFrom(s, << >>, << >>)

\* s.startswith(p) and s.endswith(p)
startswith(s, p) == Len(s) >= Len(p) /\ SubSeq(s, 1, Len(p)) = p
endswith(s, p) ==
    Len(s) >= Len(p) /\ SubSeq(s, Len(s) - Len(p) + 1, Len(s)) = p

\* s.replace(a, b) for single characters
replace(s, a, b) == [i \in 1..Len(s) |-> IF s[i] = a THEN b ELSE s[i]]

Digits == {"0", "1", "2", "3", "4", "5", "6", "7", "8", "9"}

DigitVal(c) ==
    CASE c = "0" -> 0 [] c = "1" -> 1 [] c = "2" -> 2 [] c = "3" -> 3
      [] c = "4" -> 4 [] c = "5" -> 5 [] c = "6" -> 6 [] c = "7" -> 7
      [] c = "8" -> 8 [] c = "9" -> 9

RECURSIVE DigitsVal(_)
DigitsVal(s) ==
    IF s = << >> THEN 0
    ELSE 10 * DigitsVal(SubSeq(s, 1, Len(s) - 1)) + DigitVal(s[Len(s)])

\* int(s) and float(s) on an optionally signed run of decimal digits; every
\* other text the model feeds them is one Python rejects with ValueError
IsNumber(s) ==
    LET body == IF s # << >> /\ Head(s) \in {"+", "-"} THEN Tail(s) ELSE s
    IN  body # << >> /\ \A i \in 1..Len(body) : body[i] \in Digits

Number(s) ==
    IF Head(s) = "-" THEN 0 - DigitsVal(Tail(s))
    ELSE IF Head(s) = "+" THEN DigitsVal(Tail(s))
    ELSE DigitsVal(s)

(***************************************************************************)
(* os.path.splitext: the extension starts at the last dot of the last path *)
(* component, leading dots of that component not counted.                  *)
(***************************************************************************)
LastIndex(s, c) ==
    IF \E i \in 1..Len(s) : s[i] = c
    THEN CHOOSE i \in 1..Len(s) : s[i] = c /\ \A j \in (i+1)..Len(s) : s[j] # c
    ELSE 0

splitext(p) ==
    LET sep == LastIndex(p, "/")
        dot == LastIndex(p, ".")
    IN  IF dot > sep /\ \E k \in (sep+1)..(dot-1) : p[k] # "."
        THEN << SubSeq(p, 1, dot - 1), SubSeq(p, dot, Len(p)) >>
        ELSE << p, << >> >>

(***************************************************************************)
(* Names and texts the program fixes.                                      *)
(***************************************************************************)
Stdin          == << "<", "s", "t", "d", "i", "n", ">" >>
Dash           == << "-" >>
DotXml         == << ".", "x", "m", "l" >>
PunktFil       == << "p", "u", "n", "k", "t", "e", "r", ".",
                     "g", "e", "o", "j", "s", "o", "n" >>
ObsFil         == << "o", "b", "s", "e", "r", "v", "a", "t", "i", "o", "n",
                     "e", "r", ".", "g", "e", "o", "j", "s", "o", "n" >>
FixPrefix      == << "G", "." >>
Suffix557      == << "-", "5", "5", "7" >>
PointChars     == {"P", "O", "I", "N", "T", " "}


(***************************************************************************)
(* Inputs: the lines an input stream can deliver, the input file names,    *)
(* the values of the -o option, and the answers of the database.           *)
(***************************************************************************)
LineGood    == << "#", "G", ".", "1", " ", "P", "1", " ", "a", " ", "b", " ",
                  "4", "0", " ", "1", " ", "j", " ", "c", " ", "2", "\n" >>
LineRepair  == << "#", "P", "1", " ", "G", "1", " ", "a", " ", "b", " ", "9",
                  " ", "2", "-", "5", "5", "7", " ", "j", " ", "c", " ", "1",
                  "\n" >>
LinePlain   == << "G", "1", " ", "G", ".", "1", " ", "a", " ", "b", " ", "4",
                  " ", "1", " ", "j", " ", "c", " ", "2", "\n" >>
LineText    == << "#", "#", "G", "1", " ", " ", "G", ".", "1", " ", "a", " ",
                  "b", " ", "x", " ", "1", " ", "j", " ", "c", " ", "1",
                  "\n" >>
LineShort   == << "#", "G", "1", " ", "G", ".", "1", " ", "x", "\n" >>

Lines == {LineGood, LineRepair, LinePlain, LineText, LineShort}

\* the names the first input stream can have; only filnavne[0].name is ever
\* read, so the streams after the first all have the one name OtherName
NameTxt   == << "a", ".", "t", "x", "t" >>
FileNames == { NameTxt, Stdin, << ".", "r", "c" >> }
OtherName == << "b", ".", "t", "x", "t" >>

ArgumentLists ==
    { << >> } \cup
    { << f >> \o [i \in 1..k |-> OtherName] :
      f \in FileNames, k \in 0..(MaxFiles - 1) }

OutputOptions == { << >>, PunktFil, << "o" >> }

SeqsUpTo(S, n) == UNION {[1..k -> S] : k \in 0..n}

\* srid table rows as db.hent_srider() returns them
SridOther == [name |-> "EPSG:25832", sridid |-> 7]
SridDVR90 == [name |-> "EPSG:5799",  sridid |-> 3]
SridTables == { << >>, << SridOther >>, << SridOther, SridDVR90 >> }

\* Koordinat rows: z and sz tell the four kinds of row apart
Koordinater ==
    { [sridid |-> s, registreringtil |-> t,
       z  |-> 10 * s + (IF t = None THEN 1 ELSE 2),
       sz |-> s + (IF t = None THEN 1 ELSE 2)] :
      s \in {3, 7}, t \in {None, "2019"} }

WktPoint   == << "P", "O", "I", "N", "T", " ", "(", "9", " ", "5", ")" >>
WktPointZ  == << "P", "O", "I", "N", "T", " ", "(", "9", " ", "5", " ", "1",
                 ")" >>

\* what the database holds for one identifier: the PunktInformation row the
\* query finds (None when there is none), how hent_geometri_objekt ends (it
\* returns the geometry text or raises NoResultFound) and punkt.koordinater
DbRow(pinfo, geom, koords) ==
    [pinfo |-> pinfo, geometri |-> geom, koordinater |-> koords]

\* a history with a superseded and a current row of the DVR90 srid
HistCurrent ==
    << CHOOSE k \in Koordinater : k.sridid = 3 /\ k.registreringtil # None,
       CHOOSE k \in Koordinater : k.sridid = 3 /\ k.registreringtil = None >>

\* the answers of the database in a whole run: no PunktInformation row, a
\* row without geometry, a row with a three-dimensional geometry, a row with
\* a geometry and a coordinate history
DbEntries ==
    { DbRow(None, Raises("NoResultFound"), << >>),
      DbRow("PunktInformation", Raises("NoResultFound"), << >>),
      DbRow("PunktInformation", Returns(WktPointZ), << >>),
      DbRow("PunktInformation", Returns(WktPoint), HistCurrent) }

\* the answers of the database when punkt_kote is examined: every history
KoteEntries ==
    { DbRow("PunktInformation", Returns(WktPoint), h) :
      h \in SeqsUpTo(Koordinater, MaxHist) }

(***************************************************************************)
(* gamaficer, lines 31-76.                                                 *)
(***************************************************************************)
Init ==
    /\ pc = "start"
    /\ optOutput \in OutputOptions
    /\ filnavne \in ArgumentLists
    \* the name of the first stream is read only when no option is given
    /\ optOutput # << >> /\ filnavne # << >> => filnavne[1] = NameTxt
    /\ output = optOutput
    /\ fi = 0
    /\ lest = [i \in 1..Len(filnavne) |-> << >>]
    /\ observationer = << >>
    /\ punkter = {}
    /\ stdout = << >>
    /\ stderr = << >>
    /\ exc = None
    /\ dvr90 = -1          \* not bound before line 74; no srid is negative
    /\ rest = << >>
    /\ db = << >>
    /\ punktinfo = << >>
    /\ fs = << >>
    /\ aabne = {}
    /\ log = << >>
    /\ ud = << >>

\* the default output name, lines 45-50; filnavne[0] of an empty argument
\* list raises IndexError, which nothing catches
DefaultOutput(opt, navne) ==
    IF opt # << >> THEN Returns(opt)
    ELSE IF navne = << >> THEN Raises("IndexError")
    ELSE IF navne[1] = Stdin THEN Returns(Dash)
    ELSE Returns(splitext(navne[1])[1] \o DotXml)

Start ==
    /\ pc = "start"
    /\ LET o == DefaultOutput(optOutput, filnavne)
       IN  IF o.kind = "raise"
           THEN /\ exc' = o.exc
                /\ pc' = "exit"
                /\ UNCHANGED << output, fi >>
           ELSE /\ output' = o.value
                /\ fi' = 1
                /\ pc' = IF filnavne = << >> THEN "srid" ELSE "read"
                /\ exc' = exc
    /\ UNCHANGED << optOutput, filnavne, lest, observationer, punkter, stdout,
                    stderr, dvr90, rest, db, punktinfo, fs, aabne, log, ud >>

\* the number of lines in a sequence of line sequences
RECURSIVE Count(_)
Count(ls) == IF ls = << >> THEN 0 ELSE Len(Head(ls)) + Count(Tail(ls))

LinesRead == Count(lest)

\* a line is significant when its first character is the marker
Significant(line) == line[1] = "#"

\* faulty variant of Endpoints: the second identifier is forgotten
Endpoints_onlyFrom(tokens) == {tokens[1]}

\* lines 65-66
Endpoints(tokens) == {tokens[1], tokens[2]}

\* lines 61-62
Stripped(line) == strip(lstrip(line, {"#"}))
Tokens(line) == split(Stripped(line))

\* what the except clauses of lines 67-72 do after printing: click.Abort()
\* builds an exception object and drops it, nothing is raised, and control
\* falls through to line 74
AfterAbort == "srid"

\* one iteration of the loop of line 58 on the line the stream delivers
ReadLine(line) ==
    /\ pc = "read"
    /\ LinesRead < MaxLines
    /\ lest' = [lest EXCEPT ![fi] = Append(@, line)]
    /\ IF ~Significant(line)
       THEN UNCHANGED << observationer, punkter, stdout, pc >>
       ELSE IF Len(Tokens(line)) # 9
            THEN /\ stdout' = Append(stdout,
                        << "Malformed input line: ", Stripped(line) >>)
                 /\ pc' = AfterAbort
                 /\ UNCHANGED << observationer, punkter >>
            ELSE /\ observationer' = Append(observationer, Stripped(line))
                 /\ punkter' = punkter \cup Endpoints(Tokens(line))
                 /\ UNCHANGED << stdout, pc >>
    /\ UNCHANGED << optOutput, filnavne, output, fi, stderr, exc, dvr90, rest,
                    db, punktinfo, fs, aabne, log, ud >>

\* the stream fails while it is iterated (an I/O or decoding error): the
\* bare except of line 70
ReadError ==
    /\ pc = "read"
    /\ stdout' = Append(stdout, << "Fejl ved laesning af fil" >>)
    /\ pc' = AfterAbort
    /\ UNCHANGED << optOutput, filnavne, output, fi, lest, observationer,
                    punkter, stderr, exc, dvr90, rest, db, punktinfo, fs,
                    aabne, log, ud >>

\* the stream is exhausted: on to the next one, or out of the loop of line 57
EndOfFile ==
    /\ pc = "read"
    /\ fi' = fi + 1
    /\ pc' = IF fi = Len(filnavne) THEN "srid" ELSE "read"
    /\ UNCHANGED << optOutput, filnavne, output, lest, observationer, punkter,
                    stdout, stderr, exc, dvr90, rest, db, punktinfo, fs,
                    aabne, log, ud >>

\* hent_sridid, lines 224-229
RECURSIVE hent_sridid(_, _)
hent_sridid(srider, srid) ==
    IF srider = << >> THEN 0
    ELSE IF Head(srider).name = srid THEN Head(srider).sridid
    ELSE hent_sridid(Tail(srider), srid)

\* faulty variant of SridOk: the result of the lookup is not examined
SridOk_unchecked(id) == TRUE

\* lines 74-76: the lookup, the assertion, the call of eksporter
SridOk(id) == id # 0

HentSrid(srider) ==
    /\ pc = "srid"
    /\ dvr90' = hent_sridid(srider, "EPSG:5799")
    /\ IF SridOk(dvr90')
       THEN /\ pc' = "resolve"
            /\ rest' = sorted(punkter)
            /\ UNCHANGED exc
       ELSE /\ exc' = "AssertionError"
            /\ pc' = "exit"
            /\ UNCHANGED rest
    /\ UNCHANGED << optOutput, filnavne, output, fi, lest, observationer,
                    punkter, stdout, stderr, db, punktinfo, fs, aabne, log,
                    ud >>


(***************************************************************************)
(* The point lookups, lines 183-220.                                       *)
(***************************************************************************)
\* punkt_information: Query.first() returns the first row or None and never
\* raises NoResultFound, so the except clause of line 194 is never entered
punkt_information(ident, row) == row.pinfo

\* eval of the text of a parenthesised, comma separated list of integers
EvalTuple(s) ==
    IF Len(s) >= 2 /\ Head(s) = "(" /\ s[Len(s)] = ")"
    THEN LET parts == split(replace(SubSeq(s, 2, Len(s) - 1), ",", " "))
         IN  IF \A i \in 1..Len(parts) : IsNumber(parts[i])
             THEN Returns([i \in 1..Len(parts) |-> Number(parts[i])])
             ELSE Raises("SyntaxError")
    ELSE Raises("SyntaxError")

\* punkt_geometri: punktinfo.punktid of None raises AttributeError, which
\* the except clause of line 217 does not catch
punkt_geometri(ident, pinfo, row) ==
    IF pinfo = None THEN Raises("AttributeError")
    ELSE IF row.geometri.kind = "raise"
    THEN Exits(<< "Error! Geometry for ", ident, " not found!" >>)
    ELSE LET geo == EvalTuple(replace(lstrip(row.geometri.value, PointChars),
                                      " ", ","))
         IN  IF geo.kind = "raise" THEN geo
             ELSE IF Len(geo.value) # 2 THEN Raises("AssertionError")
             ELSE geo

\* None where a Koordinat row is expected
NoKoordinat == [none |-> TRUE]

\* faulty variant of punkt_kote: registreringtil is not examined
RECURSIVE punkt_kote_anyAge(_, _)
punkt_kote_anyAge(koordinater, koteid) ==
    IF koordinater = << >> THEN NoKoordinat
    ELSE IF Head(koordinater).sridid = koteid
         THEN Head(koordinater)
         ELSE punkt_kote_anyAge(Tail(koordinater), koteid)

\* punkt_kote: the first row of the history with the wanted srid and no
\* registreringtil, None when there is none
RECURSIVE punkt_kote(_, _)
punkt_kote(koordinater, koteid) ==
    IF koordinater = << >> THEN NoKoordinat
    ELSE IF Head(koordinater).sridid = koteid
            /\ Head(koordinater).registreringtil = None
         THEN Head(koordinater)
         ELSE punkt_kote(Tail(koordinater), koteid)

\* line 88
Kote(kote) == IF kote = NoKoordinat THEN << 0, 0 >> ELSE << kote.z, kote.sz >>

(***************************************************************************)
(* The dict punktinfo: key/value pairs in insertion order.                 *)
(***************************************************************************)
Keys(d) == {d[i].key : i \in 1..Len(d)}
Get(d, k) == d[CHOOSE i \in 1..Len(d) : d[i].key = k].val
Put(d, k, v) ==
    IF k \in Keys(d)
    THEN [i \in 1..Len(d) |-> IF d[i].key = k THEN [key |-> k, val |-> v]
                                               ELSE d[i]]
    ELSE Append(d, [key |-> k, val |-> v])

(***************************************************************************)
(* eksporter, lines 84-89: one iteration of the loop over sorted(punkter). *)
(***************************************************************************)
\* the loop of line 84 has run to its end
LoopDone(r) == r = << >>

Resolve(row) ==
    /\ pc = "resolve"
    /\ ~LoopDone(rest)
    /\ LET ident == Head(rest)
           pinfo == punkt_information(ident, row)
           geo   == punkt_geometri(ident, pinfo, row)
           HsH   == Kote(punkt_kote(row.koordinater, dvr90))
       IN  /\ db' = Append(db, [ident |-> ident, row |-> row])
           /\ CASE geo.kind = "raise" ->
                     /\ exc' = geo.exc
                     /\ pc' = "exit"
                     /\ UNCHANGED << rest, punktinfo, stderr >>
                [] geo.kind = "exit" ->
                     /\ stderr' = Append(stderr, geo.msg)
                     /\ exc' = "SystemExit(1)"
                     /\ pc' = "exit"
                     /\ UNCHANGED << rest, punktinfo >>
                [] geo.kind = "return" ->
                     /\ punktinfo' = Put(punktinfo, ident,
                            << geo.value[1], geo.value[2], HsH[1], HsH[2] >>)
                     /\ rest' = Tail(rest)
                     /\ UNCHANGED << pc, exc, stderr >>
    /\ UNCHANGED << optOutput, filnavne, output, fi, lest, observationer,
                    punkter, stdout, dvr90, fs, aabne, log, ud >>

(***************************************************************************)
(* The feature generators, lines 126-180.                                  *)
(***************************************************************************)
\* punkt_feature: one feature per entry of the dict, in its order
punkt_feature(d) ==
    [i \in 1..Len(d) |->
        [type |-> "Feature",
         properties |-> [id |-> d[i].key, H |-> d[i].val[3],
                         sH |-> d[i].val[4]],
         geometry |-> [type |-> "Point",
                       coordinates |-> << d[i].val[1], d[i].val[2] >>]]]

Kattegat == << 11, 56, 0 >>

\* None where a value of the dict is expected
NoPunkt == << >>

\* punkter[k] of line 132: a key the dict does not hold raises KeyError
Lookup(d, k) == IF k \in Keys(d) THEN Returns(Get(d, k)) ELSE Raises("KeyError")

\* the body of the loop of obs_feature for one observation
ObsFeature(d, obs) ==
    LET dele == split(obs)
    IN  IF Len(dele) # 9 THEN Raises("AssertionError")
        ELSE
        LET fra0 == Lookup(d, dele[1])
            til0 == Lookup(d, dele[2])
        IN  IF fra0.kind = "raise" THEN fra0
            ELSE IF til0.kind = "raise" THEN til0
            ELSE
            LET fra == IF fra0.value = NoPunkt THEN Kattegat ELSE fra0.value
                til == IF til0.value = NoPunkt THEN Kattegat ELSE til0.value
                dH  == IF endswith(dele[6], Suffix557)
                       THEN SubSeq(dele[6], 1, Len(dele[6]) - 4)
                       ELSE dele[6]
            IN  IF ~IsNumber(dele[5]) \/ ~IsNumber(dH) \/ ~IsNumber(dele[9])
                THEN Raises("ValueError")
                ELSE Returns(
                    [type |-> "Feature",
                     properties |-> [fra |-> dele[1], til |-> dele[2],
                                     dist |-> Number(dele[5]),
                                     dH |-> Number(dH),
                                     setups |-> Number(dele[9]),
                                     journal |-> dele[7]],
                     geometry |-> [type |-> "LineString",
                                   coordinates |->
                                       << << fra[1], fra[2] >>,
                                          << til[1], til[2] >> >>]])

\* obs_feature run to its end or to the exception that ends it: the features
\* yielded, and the exception (None when the generator is exhausted)
RECURSIVE obs_feature(_, _)
obs_feature(d, obser) ==
    IF obser = << >> THEN [yielded |-> << >>, exc |-> None]
    ELSE LET r == ObsFeature(d, Head(obser))
         IN  IF r.kind = "raise" THEN [yielded |-> << >>, exc |-> r.exc]
             ELSE LET t == obs_feature(d, Tail(obser))
                  IN  [yielded |-> << r.value >> \o t.yielded, exc |-> t.exc]


(***************************************************************************)
(* The XML helpers, lines 234-284: each returns the element it writes.     *)
(***************************************************************************)
xml_preamble         == [tag |-> "preamble"]
xml_description(d)   == [tag |-> "description", text |-> d]
xml_fixed_points     == [tag |-> "Fixed"]
xml_adjusted_points  == [tag |-> "Adjusted"]
xml_observations     == [tag |-> "height-differences"]
xml_postamble        == [tag |-> "postamble"]

xml_point(fix, key, val) ==
    [tag |-> "point", fixadj |-> IF fix = TRUE THEN "fix=Z" ELSE "adj=z",
     id |-> key, z |-> val[3]]

\* faulty variant of xml_obs: the attribute from is given the to identifier
xml_obs_swapped(obs) ==
    [tag |-> "dh", from |-> obs.properties.til, to |-> obs.properties.fra,
     val |-> obs.properties.dH,
     dist |-> << obs.properties.dist, 1000 >>,
     stdev |-> << obs.properties.dist, 1000, obs.properties.setups >>]

\* dist is the distance divided by 1000, stdev is sqrt(dist)*0.6+0.01*setups;
\* both are kept as the operands they are computed from
xml_obs(obs) ==
    [tag |-> "dh", from |-> obs.properties.fra, to |-> obs.properties.til,
     val |-> obs.properties.dH,
     dist |-> << obs.properties.dist, 1000 >>,
     stdev |-> << obs.properties.dist, 1000, obs.properties.setups >>]

\* faulty variant of IsFixed: the dot of the prefix is forgotten
IsFixed_noDot(key) == startswith(key, << "G" >>)

\* the test of line 113
IsFixed(key) == startswith(key, FixPrefix)

\* the loops of lines 112-114 and 116-118 over punktinfo.items()
RECURSIVE xml_points(_, _)
xml_points(d, fix) ==
    IF d = << >> THEN << >>
    ELSE IF IsFixed(Head(d).key) = fix
         THEN << xml_point(fix, Head(d).key, Head(d).val) >>
              \o xml_points(Tail(d), fix)
         ELSE xml_points(Tail(d), fix)

(***************************************************************************)
(* Files: open(path, "wt") creates or truncates, write appends.            *)
(***************************************************************************)
Opened(f, path) ==
    [p \in (DOMAIN f) \cup {path} |-> IF p = path THEN << >> ELSE f[p]]

Written(f, path, items) == [f EXCEPT ![path] = @ \o items]

FeatureCollection(features) ==
    [type |-> "FeatureCollection", Features |-> features]

(***************************************************************************)
(* eksporter, lines 91-123.                                                *)
(***************************************************************************)
Unchanged_io ==
    UNCHANGED << optOutput, filnavne, output, fi, lest, observationer,
                 punkter, stdout, stderr, dvr90, rest, db, punktinfo, ud >>

OpenFile(at, path, to) ==
    /\ pc = at
    /\ fs' = Opened(fs, path)
    /\ aabne' = aabne \cup {path}
    /\ log' = Append(log, << "open", path >>)
    /\ pc' = to
    /\ UNCHANGED exc
    /\ Unchanged_io

WriteFile(at, path, items, to) ==
    /\ pc = at
    /\ fs' = Written(fs, path, items)
    /\ log' = Append(log, << "write", path >>)
    /\ pc' = to
    /\ UNCHANGED << aabne, exc >>
    /\ Unchanged_io

\* faulty variant of CloseFile: the file is left open
CloseFile_leftOpen(at, path, to) ==
    /\ pc = at
    /\ pc' = to
    /\ UNCHANGED << fs, aabne, log, exc >>
    /\ Unchanged_io

\* the end of a with block
CloseFile(at, path, to) ==
    /\ pc = at
    /\ aabne' = aabne \ {path}
    /\ log' = Append(log, << "close", path >>)
    /\ pc' = to
    /\ UNCHANGED << fs, exc >>
    /\ Unchanged_io

\* an exception inside a with block: the file is closed and the exception
\* ends the run
RaiseInWith(at, path, items, e) ==
    /\ pc = at
    /\ fs' = Written(fs, path, items)
    /\ aabne' = aabne \ {path}
    /\ log' = log \o (IF items = << >> THEN << >> ELSE << << "write", path >> >>)
                  \o << << "close", path >> >>
    /\ exc' = e
    /\ pc' = "exit"
    /\ Unchanged_io

\* line 92
PunktfilOpen ==
    /\ LoopDone(rest)
    /\ OpenFile("resolve", PunktFil, "punkt_dump")

\* lines 93-97
PunktfilDump ==
    WriteFile("punkt_dump", PunktFil,
              << FeatureCollection(punkt_feature(punktinfo)) >>, "punkt_close")

PunktfilClose == CloseFile("punkt_close", PunktFil, "obs_open")

\* line 100
ObsfilOpen == OpenFile("obs_open", ObsFil, "obs_dump")

\* lines 101-105
ObsfilDump ==
    LET r == obs_feature(punktinfo, observationer)
    IN  IF r.exc = None
        THEN WriteFile("obs_dump", ObsFil,
                       << FeatureCollection(r.yielded) >>, "obs_close")
        ELSE RaiseInWith("obs_dump", ObsFil, << >>, r.exc)

ObsfilClose == CloseFile("obs_close", ObsFil, "gama_open")

\* line 108
GamaOpen == OpenFile("gama_open", output, "gama_head")

\* lines 109-111
GamaHead ==
    WriteFile("gama_head", output,
              << xml_preamble, xml_description("bla bla bla"),
                 xml_fixed_points >>, "gama_fixed")

\* lines 112-114
GamaFixed ==
    WriteFile("gama_fixed", output, xml_points(punktinfo, TRUE),
              "gama_adjusted")

\* lines 115-118
GamaAdjusted ==
    WriteFile("gama_adjusted", output,
              << xml_adjusted_points >> \o xml_points(punktinfo, FALSE),
              "gama_obs")

\* lines 119-122: each feature is written as the generator yields it
GamaObs ==
    LET r  == obs_feature(punktinfo, observationer)
        dh == [i \in 1..Len(r.yielded) |-> xml_obs(r.yielded[i])]
    IN  IF r.exc = None
        THEN WriteFile("gama_obs", output, << xml_observations >> \o dh,
                       "gama_end")
        ELSE RaiseInWith("gama_obs", output, << xml_observations >> \o dh,
                         r.exc)

\* line 123 and the end of the with block
GamaEnd ==
    /\ pc = "gama_end"
    /\ fs' = Written(fs, output, << xml_postamble >>)
    /\ aabne' = aabne \ {output}
    /\ log' = log \o << << "write", output >>, << "close", output >> >>
    /\ pc' = "exit"
    /\ UNCHANGED exc
    /\ Unchanged_io

(***************************************************************************)
(* The program.                                                            *)
(***************************************************************************)
Next ==
    \/ Start
    \/ \E line \in Lines : ReadLine(line)
    \/ ReadError
    \/ EndOfFile
    \/ \E srider \in SridTables : HentSrid(srider)
    \/ \E row \in DbEntries : Resolve(row)
    \/ PunktfilOpen
    \/ PunktfilDump
    \/ PunktfilClose
    \/ ObsfilOpen
    \/ ObsfilDump
    \/ ObsfilClose
    \/ GamaOpen
    \/ GamaHead
    \/ GamaFixed
    \/ GamaAdjusted
    \/ GamaObs
    \/ GamaEnd

Spec == Init /\ [][Next]_vars


(***************************************************************************)
(* punkt_kote on its own: eksporter is entered for the input LineGood and  *)
(* the database answers with every coordinate history up to MaxHist rows.  *)
(***************************************************************************)
InitKote ==
    /\ pc = "resolve"
    /\ optOutput = << >>
    /\ filnavne = << OtherName >>
    /\ output = DefaultOutput(optOutput, filnavne).value
    /\ fi = 2
    /\ lest = << << LineGood >> >>
    /\ observationer = << Stripped(LineGood) >>
    /\ punkter = Endpoints(Tokens(LineGood))
    /\ stdout = << >>
    /\ stderr = << >>
    /\ exc = None
    /\ dvr90 \in {r.sridid : r \in {SridOther, SridDVR90}}
    /\ rest = sorted(punkter)
    /\ db = << >>
    /\ punktinfo = << >>
    /\ fs = << >>
    /\ aabne = {}
    /\ log = << >>
    /\ ud = << >>

NextKote == \E row \in KoteEntries : Resolve(row)

SpecKote == InitKote /\ [][NextKote]_vars

(***************************************************************************)
(* obs_feature on its own: the generator is handed a dict and a list of    *)
(* observations and is advanced one observation at a time.                 *)
(***************************************************************************)
Idents == UNION {Endpoints(Tokens(l)) : l \in {LineGood, LineRepair}}

\* dicts with the keys K in sorted order and values from V
Dicts(K, V) ==
    LET ks == sorted(K)
    IN  { [i \in 1..Len(ks) |-> [key |-> ks[i], val |-> v[i]]] :
          v \in [1..Len(ks) -> V] }

InitObs ==
    /\ pc = "obs_feature"
    /\ optOutput = << >>
    /\ filnavne = << >>
    /\ output = << >>
    /\ fi = 0
    /\ lest = << >>
    /\ observationer \in
           SeqsUpTo({Stripped(LineGood), Stripped(LineRepair)}, MaxObs)
    /\ punkter = {}
    /\ stdout = << >>
    /\ stderr = << >>
    /\ exc = None
    /\ dvr90 = -1
    /\ rest = << >>
    /\ db = << >>
    /\ punktinfo \in UNION { Dicts(K, {NoPunkt, << 9, 5, 31, 4 >>}) :
                             K \in SUBSET Idents }
    /\ fs = << >>
    /\ aabne = {}
    /\ log = << >>
    /\ ud = << >>

\* the generator is resumed: it yields the next feature, or the exception of
\* the loop body leaves it
ObsFeatureNext ==
    /\ pc = "obs_feature"
    /\ Len(ud) < Len(observationer)
    /\ LET r == ObsFeature(punktinfo, observationer[Len(ud) + 1])
       IN  IF r.kind = "raise"
           THEN /\ exc' = r.exc
                /\ pc' = "exit"
                /\ UNCHANGED ud
           ELSE /\ ud' = Append(ud, r.value)
                /\ UNCHANGED << pc, exc >>
    /\ UNCHANGED << optOutput, filnavne, output, fi, lest, observationer,
                    punkter, stdout, stderr, dvr90, rest, db, punktinfo, fs,
                    aabne, log >>

\* the generator is exhausted
ObsFeatureEnd ==
    /\ pc = "obs_feature"
    /\ Len(ud) = Len(observationer)
    /\ pc' = "exit"
    /\ UNCHANGED << optOutput, filnavne, output, fi, lest, observationer,
                    punkter, stdout, stderr, exc, dvr90, rest, db, punktinfo,
                    fs, aabne, log, ud >>

NextObs == ObsFeatureNext \/ ObsFeatureEnd

SpecObs == InitObs /\ [][NextObs]_vars


(***************************************************************************)
(* Vocabulary of the properties.                                           *)
(***************************************************************************)
Range(q) == {q[i] : i \in 1..Len(q)}

RECURSIVE Flatten(_)
Flatten(qs) == IF qs = << >> THEN << >> ELSE Head(qs) \o Flatten(Tail(qs))

\* every line delivered so far, in the order of delivery, and as a set
LinesInOrder == Flatten(lest)
LineSet == Range(LinesInOrder)

StartsWithMarker(line) == line # << >> /\ line[1] = "#"
SigLines == SelectSeq(LinesInOrder, StartsWithMarker)
Malformed(line) == StartsWithMarker(line) /\ Len(Tokens(line)) # 9

\* the read loop ran through every stream
ScanComplete == pc \notin {"start", "read"} /\ fi > Len(filnavne)

\* every stream was read to its end and no line was complained about
WellFormed == ScanComplete /\ stdout = << >>

\* the run ended without an exception and without sys.exit
Completed == pc = "exit" /\ exc = None

HasFixPrefix(id) == Len(id) >= 2 /\ id[1] = "G" /\ id[2] = "."

Indices(x, t) == {i \in 1..Len(x) : x[i].tag = t}

IsCollection(c) == Len(c) = 1 /\ "Features" \in DOMAIN c[1]

(***************************************************************************)
(* C1.  A significant line that does not split into 9 tokens aborts the    *)
(* whole run: its text is reported, the srid lookup and eksporter are not  *)
(* reached and no output file is opened or written.                        *)
(* The code prints the message and goes on: click.Abort() is built but not *)
(* raised.                                                                 *)
(***************************************************************************)
C1_MalformedLineAborts ==
    \A l \in LineSet :
        Malformed(l) =>
            /\ << "Malformed input line: ", Stripped(l) >> \in Range(stdout)
            /\ dvr90 = -1
            /\ db = << >>
            /\ punktinfo = << >>
            /\ log = << >>
            /\ fs = << >>

(***************************************************************************)
(* C2.  An identifier for which punkt_information or punkt_geometri finds  *)
(* no record ends the run with a not-found diagnostic naming it, no output *)
(* file is opened, and the identifier gets no entry in punktinfo.          *)
(* The code has no diagnostic for a missing PunktInformation row: first()  *)
(* returns None and punkt_geometri fails on it with AttributeError.        *)
(* Stated for runs whose input was read without a complaint.               *)
(***************************************************************************)
NotFound(row) == row.pinfo = None \/ row.geometri.kind = "raise"

C2_NotFoundIsReportedAndFatal ==
    \A i \in 1..Len(db) :
        WellFormed /\ NotFound(db[i].row) =>
            /\ pc = "exit"
            /\ exc = "SystemExit(1)"
            /\ \E m \in 1..Len(stderr) : stderr[m][2] = db[i].ident
            /\ db[i].ident \notin Keys(punktinfo)
            /\ log = << >>
            /\ fs = << >>

(***************************************************************************)
(* C3.  An observation whose from_id or to_id is not a key of the dict     *)
(* handed to obs_feature is still yielded, with (11, 56) as the            *)
(* coordinates of that endpoint, and the run does not abort.               *)
(* The code indexes the dict, which raises KeyError for an absent key.     *)
(***************************************************************************)
Processed(i) == i <= Len(ud) \/ (i = Len(ud) + 1 /\ exc # None)

C3_AbsentEndpointGetsSentinel ==
    \A i \in 1..Len(observationer) :
        LET t == split(observationer[i])
        IN  Processed(i) /\ (t[1] \notin Keys(punktinfo)
                             \/ t[2] \notin Keys(punktinfo)) =>
                /\ exc = None
                /\ i <= Len(ud)
                /\ t[1] \notin Keys(punktinfo) =>
                       ud[i].geometry.coordinates[1] = << 11, 56 >>
                /\ t[2] \notin Keys(punktinfo) =>
                       ud[i].geometry.coordinates[2] = << 11, 56 >>

(***************************************************************************)
(* C4.  When hent_sridid returns 0 the run aborts before eksporter is      *)
(* entered: no point is resolved and no output file is opened.             *)
(***************************************************************************)
C4_SridNotFoundAborts ==
    dvr90 = 0 =>
        /\ pc = "exit"
        /\ exc = "AssertionError"
        /\ db = << >>
        /\ punktinfo = << >>
        /\ log = << >>
        /\ fs = << >>
        /\ aabne = {}

C4_Witness ==
    /\ dvr90 = 0
    /\ pc = "exit"
    /\ punkter # {}
    /\ observationer # << >>

(***************************************************************************)
(* C5.  The stages of eksporter do not overlap: every identifier is in     *)
(* punktinfo before the first output file is opened; the files are opened  *)
(* in the order points file, observations file, XML file, each one written *)
(* and closed before the next is opened; punktinfo does not change once a  *)
(* file has been opened.                                                   *)
(***************************************************************************)
OpenedPaths == LET opens == SelectSeq(log, LAMBDA e : e[1] = "open")
               IN  [i \in 1..Len(opens) |-> opens[i][2]]

IsPrefix(q, r) == Len(q) <= Len(r) /\ q = SubSeq(r, 1, Len(q))

C5_Order ==
    /\ IsPrefix(OpenedPaths, << PunktFil, ObsFil, output >>)
    /\ \A i \in 1..Len(log) :
          IF log[i][1] = "open"
          THEN i = 1 \/ log[i-1][1] = "close"
          ELSE /\ i > 1
               /\ log[i-1][1] \in {"open", "write"}
               /\ log[i-1][2] = log[i][2]
    /\ aabne = IF log # << >> /\ log[Len(log)][1] # "close"
               THEN {log[Len(log)][2]} ELSE {}
    /\ log # << >> => rest = << >> /\ Keys(punktinfo) = punkter
    /\ Completed => \A i \in 2..Len(log) :
                        log[i][1] = "close" => log[i-1][1] = "write"

\* C5: the calls on the output files are ordered as C5_Order says in every
\* state, and no step changes punktinfo once a file has been opened
C5_StagesDoNotOverlap ==
    /\ []C5_Order
    /\ [][log # << >> => punktinfo' = punktinfo]_vars

C5_Witness ==
    /\ Completed
    /\ Len(punktinfo) >= 2
    /\ Len(OpenedPaths) = 3
    /\ aabne = {}

(***************************************************************************)
(* C6.  In the XML of a completed run every resolved point has exactly one *)
(* point element; it carries fix="Z" and stands between the Fixed and the  *)
(* Adjusted header exactly when its identifier starts with "G.", otherwise *)
(* it carries adj="z" and stands after the Adjusted header; every point    *)
(* element precedes the height-differences header and every dh element     *)
(* stands between that header and the postamble.                           *)
(***************************************************************************)
C6_XmlSections ==
    Completed =>
        LET x  == fs[output]
            F  == Indices(x, "Fixed")
            A  == Indices(x, "Adjusted")
            H  == Indices(x, "height-differences")
            Pm == Indices(x, "postamble")
            Pt == Indices(x, "point")
        IN  /\ \A S \in {F, A, H, Pm} : Cardinality(S) = 1
            /\ Cardinality(Pt) = Len(punktinfo)
            /\ \A k \in 1..Len(punktinfo) :
                  Cardinality({i \in Pt : x[i].id = punktinfo[k].key}) = 1
            /\ \A i \in Pt :
                  /\ x[i].fixadj = (IF HasFixPrefix(x[i].id) THEN "fix=Z"
                                                             ELSE "adj=z")
                  /\ HasFixPrefix(x[i].id) =>
                         (\A f \in F : f < i) /\ (\A a \in A : i < a)
                  /\ ~HasFixPrefix(x[i].id) => \A a \in A : a < i
                  /\ \A h \in H : i < h
            /\ \A i \in Indices(x, "dh") :
                  (\A h \in H : h < i) /\ (\A e \in Pm : i < e)

C6_Witness ==
    /\ Completed
    /\ \E k \in 1..Len(punktinfo) : HasFixPrefix(punktinfo[k].key)
    /\ \E k \in 1..Len(punktinfo) :
          punktinfo[k].key[1] = "G" /\ ~HasFixPrefix(punktinfo[k].key)
    /\ Indices(fs[output], "dh") # {}

(***************************************************************************)
(* C7.  For a well-formed input with N distinct identifiers and M          *)
(* significant lines, a completed run leaves N point features in the       *)
(* points file, M line features in input order in the observations file,   *)
(* and an XML document with N point elements followed by M dh elements,    *)
(* the k-th dh element having the from and to of the k-th line feature.    *)
(***************************************************************************)
IdsOfLines ==
    UNION { {Tokens(l)[1], Tokens(l)[2]} :
            l \in {m \in LineSet : StartsWithMarker(m)} }

PointsFileHolds(n) ==
    /\ IsCollection(fs[PunktFil])
    /\ Len(fs[PunktFil][1].Features) = n
    /\ \A k \in 1..n : fs[PunktFil][1].Features[k].geometry.type = "Point"

ObsFileHolds(m) ==
    /\ IsCollection(fs[ObsFil])
    /\ Len(fs[ObsFil][1].Features) = m
    /\ \A k \in 1..m :
          LET f == fs[ObsFil][1].Features[k]
          IN  /\ f.geometry.type = "LineString"
              /\ f.properties.fra = Tokens(SigLines[k])[1]
              /\ f.properties.til = Tokens(SigLines[k])[2]

XmlHolds(n, m) ==
    LET x  == fs[output]
        dh == SelectSeq(x, LAMBDA e : e.tag = "dh")
    IN  /\ Cardinality(Indices(x, "point")) = n
        /\ Len(dh) = m
        /\ \A i \in Indices(x, "point") : \A j \in Indices(x, "dh") : i < j
        /\ \A k \in 1..m :
              /\ dh[k].from = Tokens(SigLines[k])[1]
              /\ dh[k].to = Tokens(SigLines[k])[2]

C7_Counts ==
    /\ PointsFileHolds(Cardinality(IdsOfLines))
    /\ ObsFileHolds(Len(SigLines))
    /\ XmlHolds(Cardinality(IdsOfLines), Len(SigLines))

\* C7 as stated: the counts hold for every completed run on well-formed input
C7_CompletedRunCounts == Completed /\ WellFormed => C7_Counts

\* C7 amended: the counts hold for every completed run on well-formed input
\* whose XML path is not one of the two feature files (open(output, "wt")
\* comes last and truncates the file it names)
C7_CompletedRunCountsDistinctPaths ==
    Completed /\ WellFormed /\ output \notin {PunktFil, ObsFil} => C7_Counts

C7_Witness ==
    /\ Completed
    /\ WellFormed
    /\ output \notin {PunktFil, ObsFil}
    /\ Cardinality(IdsOfLines) = 3
    /\ Len(SigLines) = 2

(***************************************************************************)
(* C8.  The elevation and uncertainty stored for a resolved point are the  *)
(* z and sz of a row of its coordinate history whose srid is the elevation *)
(* reference id and whose registreringtil is unset; a row with another     *)
(* srid or with registreringtil set is never the one stored; without such  *)
(* a row the stored pair is (0, 0).                                        *)
(***************************************************************************)
C8_StoredKoteIsCurrent ==
    \A k \in 1..Len(punktinfo) :
        LET e   == punktinfo[k]
            h   == db[CHOOSE i \in 1..Len(db) : db[i].ident = e.key]
                       .row.koordinater
            cur == {j \in 1..Len(h) : h[j].sridid = dvr90
                                      /\ h[j].registreringtil = None}
        IN  IF cur = {}
            THEN e.val[3] = 0 /\ e.val[4] = 0
            ELSE /\ \E j \in cur : e.val[3] = h[j].z /\ e.val[4] = h[j].sz
                 /\ \A j \in (1..Len(h)) \ cur :
                       e.val[3] # h[j].z \/ e.val[4] # h[j].sz

C8_Witness ==
    /\ Len(punktinfo) = 2
    /\ LET h1 == db[1].row.koordinater
           h2 == db[2].row.koordinater
       IN  /\ Len(h1) = 2
           /\ h1[1].sridid = dvr90 /\ h1[1].registreringtil # None
           /\ h1[2].sridid = dvr90 /\ h1[2].registreringtil = None
           /\ punktinfo[1].val[3] = h1[2].z
           /\ Len(h2) = 2
           /\ h2[1].sridid # dvr90 /\ h2[1].registreringtil = None
           /\ h2[2].sridid = dvr90 /\ h2[2].registreringtil # None
           /\ punktinfo[2].val[3] = 0

(***************************************************************************)
(* C9.  Once every input stream has been scanned, punkter is exactly the   *)
(* set of the first and second tokens of the lines that start with '#',    *)
(* whatever the order of the streams and of their lines, and               *)
(* observationer holds those lines and no others.                          *)
(***************************************************************************)
C9_IdentifierSet ==
    ScanComplete =>
        /\ punkter = IdsOfLines
        /\ Len(observationer) = Len(SigLines)
        /\ \A k \in 1..Len(SigLines) :
              observationer[k] = Stripped(SigLines[k])

C9_Witness ==
    /\ ScanComplete
    /\ Len(lest) = 2
    /\ lest[1] # << >> /\ lest[2] # << >>
    /\ \E l \in LineSet : ~StartsWithMarker(l)
    /\ punkter # {}

(***************************************************************************)
(* C10.  Without an output option the XML goes to the first input's file   *)
(* name with the extension replaced by ".xml"; when the first input is     *)
(* standard input it goes to standard output and not to a file.            *)
(* The code hands "-" to open(), which creates a file of that name.        *)
(* Stated for runs whose input was read without a complaint.               *)
(***************************************************************************)
IsGamaXml(c) == c # << >> /\ c[1] = xml_preamble /\ c[Len(c)] = xml_postamble

C10_DefaultOutput ==
    Completed /\ WellFormed /\ optOutput = << >> =>
        IF filnavne[1] = Stdin
        THEN /\ \E i \in 1..Len(stdout) : stdout[i] = xml_postamble
             /\ DOMAIN fs \subseteq {PunktFil, ObsFil}
        ELSE LET path == splitext(filnavne[1])[1] \o DotXml
             IN  path \in DOMAIN fs /\ IsGamaXml(fs[path])

====
